---- MODULE Spec2Model ----
(***************************************************************************)
(* Model of carla_gym/envs/carla_env.py: the process registry              *)
(* live_carla_processes with its exit hook cleanup(), CarlaEnv.__init__    *)
(* and CarlaEnv.init_server (spawn, register, bounded connect loop).       *)
(***************************************************************************)
EXTENDS Integers, Sequences, FiniteSets

\* ---------------------------------------------------------------- bounds
NumEnvs == 1
MaxSpawns == 2
MaxRetries == 3
MaxFramestack == 2

\* ------------------------------------------------------ program constants
None == 0
\* a module global that has not been assigned
Unbound == -1
PortMin == 10000
PortMax == 60000

Envs == 1..NumEnvs
Pids == 1..MaxSpawns
Ports == {PortMin, PortMax}

\* Values the client's connect() may hand back; init_server returns it as is.
ConnectReturns == {"None", "Client"}

\* ENV_CONFIG, restricted to the keys __init__ reads.
ENV_CONFIG ==
  [enable_planner |-> TRUE, use_depth_camera |-> FALSE,
   framestack |-> 2, x_res |-> 80, y_res |-> 80]

\* Configurations used when the process lifecycle is explored.
ProcessConfigs == {ENV_CONFIG}

\* Configurations used when the space descriptors are explored.
Configs ==
  [enable_planner : BOOLEAN, use_depth_camera : BOOLEAN,
   framestack : 1..MaxFramestack, x_res : {80, 800}, y_res : {80, 600}]

VARIABLES
  env,                    \* env[e]: the fields of CarlaEnv instance e
  live_carla_processes,   \* module global: set of process-group ids
  RETRIES_ON_ERROR,       \* module global read at line 140; the file never
                          \* assigns it, so it is Unbound after import
  proc,                   \* proc[p]: OS state of simulator process p
  spawned_by,             \* spawned_by[e]: pids instance e has spawned
  pc,                     \* position of the single thread of control
  self_,                  \* instance whose method is running / ran last
  i,                      \* loop variable of the connect loop
  op,                     \* name of the latest operation started
  \* what the latest operation did; starting another operation resets these
  log,                    \* init_server: its connect-loop events
  retval,                 \* init_server: the value it returned
  call_outcome,           \* init_server: "none" | "returned" | "raised"
  killpg_calls,           \* cleanup: the pgids os.killpg was called on
  cleanup_outcome         \* cleanup: "none" | "returned" | "raised"

vars == <<env, live_carla_processes, RETRIES_ON_ERROR, proc, spawned_by, pc,
          self_, i, log, retval, call_outcome, op, killpg_calls,
          cleanup_outcome>>

\* ---------------------------------------------------------------- helpers
NoClient == [exists |-> FALSE, port |-> None, connected |-> FALSE]

NoSpace == <<0, 0, 0>>

NotConstructed ==
  [constructed |-> FALSE, config |-> ENV_CONFIG, planner |-> FALSE,
   image_shape |-> NoSpace, image_low |-> 0, image_high |-> 0,
   server_port |-> None, server_process |-> None, client |-> NoClient,
   num_steps |-> 0, total_reward |-> 0]

\* Shape of the image Box built by __init__.
ImageShape_Swapped(cfg) ==
  IF cfg.use_depth_camera
    THEN <<cfg.y_res, cfg.x_res, 3 * cfg.framestack>>
    ELSE <<cfg.y_res, cfg.x_res, 1 * cfg.framestack>>

ImageShape(cfg) ==
  IF cfg.use_depth_camera
    THEN <<cfg.y_res, cfg.x_res, 1 * cfg.framestack>>
    ELSE <<cfg.y_res, cfg.x_res, 3 * cfg.framestack>>

ImageLow(cfg) == IF cfg.use_depth_camera THEN -1 ELSE 0

ImageHigh(cfg) == IF cfg.use_depth_camera THEN 1 ELSE 255

\* The instance as __init__ leaves it.
EnvAfterInit_StalePort(cfg) ==
  [constructed |-> TRUE, config |-> cfg, planner |-> cfg.enable_planner,
   image_shape |-> ImageShape(cfg), image_low |-> ImageLow(cfg),
   image_high |-> ImageHigh(cfg),
   server_port |-> PortMin, server_process |-> None, client |-> NoClient,
   num_steps |-> 0, total_reward |-> 0]

EnvAfterInit(cfg) ==
  [constructed |-> TRUE, config |-> cfg, planner |-> cfg.enable_planner,
   image_shape |-> ImageShape(cfg), image_low |-> ImageLow(cfg),
   image_high |-> ImageHigh(cfg),
   server_port |-> None, server_process |-> None, client |-> NoClient,
   num_steps |-> 0, total_reward |-> 0]

\* os.getpgid(pid) of a child started with preexec_fn=os.setsid.
Getpgid(p) == p

\* os.killpg(pgid, SIGKILL) succeeds while the group still has a member
\* (running or not yet reaped) and raises ProcessLookupError otherwise.
GroupExists(pgid) == proc[pgid] \in {"running", "zombie"}

Alive(p) == proc[p] = "running"

Perms(S) ==
  {f \in [1..Cardinality(S) -> S] : \A x \in S : \E j \in DOMAIN f : f[j] = x}

Count(s, x) == Cardinality({j \in DOMAIN s : s[j] = x})

Attempts(s) == Count(s, "fail") + Count(s, "ok")

InCall == pc \in {"register", "loop", "except"}

\* ------------------------------------------------------------------- Init
Init ==
  /\ env = [e \in Envs |-> NotConstructed]
  /\ live_carla_processes = {}
  /\ RETRIES_ON_ERROR = Unbound
  /\ proc = [p \in Pids |-> "none"]
  /\ spawned_by = [e \in Envs |-> {}]
  /\ pc = "idle"
  /\ self_ = 1
  /\ i = 0
  /\ log = <<>>
  /\ retval = "None"
  /\ call_outcome = "none"
  /\ op = "none"
  /\ killpg_calls = {}
  /\ cleanup_outcome = "none"

\* ------------------------------------------------------ CarlaEnv.__init__
\* e = CarlaEnv(cfg): a new instance is bound to e; an instance bound to e
\* before is dropped together with its Popen handle
Construct(e, cfg) ==
  /\ pc = "idle"
  /\ env' = [env EXCEPT ![e] = EnvAfterInit(cfg)]
  /\ spawned_by' = [spawned_by EXCEPT ![e] = {}]
  /\ self_' = e
  /\ op' = "__init__"
  /\ log' = <<>>
  /\ retval' = "None"
  /\ call_outcome' = "none"
  /\ killpg_calls' = {}
  /\ cleanup_outcome' = "none"
  /\ UNCHANGED <<live_carla_processes, RETRIES_ON_ERROR, proc, pc,
                 i>>

\* --------------------------------------------------- CarlaEnv.init_server
\* lines 131-137: pick a port, Popen the server in its own session.
SpawnServer(e) ==
  /\ env[e].constructed
  /\ \E p \in Pids, port \in Ports :
       /\ proc[p] = "none"
       /\ \A q \in Pids : q < p => proc[q] # "none"
       /\ env' = [env EXCEPT ![e].server_port = port,
                             ![e].server_process = p]
       /\ proc' = [proc EXCEPT ![p] = "running"]
       /\ spawned_by' = [spawned_by EXCEPT ![e] = @ \cup {p}]
  /\ self_' = e
  /\ pc' = "register"
  /\ i' = 0
  /\ log' = <<>>
  /\ retval' = "None"
  /\ call_outcome' = "none"
  /\ op' = "init_server"
  /\ killpg_calls' = {}
  /\ cleanup_outcome' = "none"
  /\ UNCHANGED <<live_carla_processes, RETRIES_ON_ERROR>>

\* a direct call of the public method init_server
InitServerCall(e) ==
  /\ pc = "idle"
  /\ SpawnServer(e)

\* line 138: live_carla_processes.add(os.getpgid(self.server_process.pid))
InitServerRegister_Skip ==
  /\ pc = "register"
  /\ live_carla_processes' = live_carla_processes
  /\ pc' = "loop"
  /\ UNCHANGED <<env, RETRIES_ON_ERROR, proc, spawned_by, self_, i,
                 log, retval, call_outcome, op, killpg_calls, cleanup_outcome>>

InitServerRegister ==
  /\ pc = "register"
  /\ live_carla_processes' =
       live_carla_processes \cup {Getpgid(env[self_].server_process)}
  /\ pc' = "loop"
  /\ UNCHANGED <<env, RETRIES_ON_ERROR, proc, spawned_by, self_, i,
                 log, retval, call_outcome, op, killpg_calls, cleanup_outcome>>

\* line 140: for i in range(RETRIES_ON_ERROR)
LoopContinues_OffByOne(k) ==
  RETRIES_ON_ERROR # Unbound /\ k <= RETRIES_ON_ERROR

LoopContinues(k) == RETRIES_ON_ERROR # Unbound /\ k < RETRIES_ON_ERROR

\* the program importing the module assigns carla_env.RETRIES_ON_ERROR = n;
\* nothing in the module itself does
BindRetries(n) ==
  /\ pc = "idle"
  /\ RETRIES_ON_ERROR = Unbound
  /\ RETRIES_ON_ERROR' = n
  /\ UNCHANGED <<env, live_carla_processes, proc, spawned_by, pc, self_,
                 i, log, retval, call_outcome, op, killpg_calls,
                 cleanup_outcome>>

\* line 140 with the global unbound: evaluating range(RETRIES_ON_ERROR)
\* raises NameError, which leaves init_server
InitServerNameError ==
  /\ pc = "loop"
  /\ RETRIES_ON_ERROR = Unbound
  /\ call_outcome' = "raised"
  /\ pc' = "idle"
  /\ UNCHANGED <<env, live_carla_processes, RETRIES_ON_ERROR, proc,
                 spawned_by, self_, i, log, retval, op, killpg_calls,
                 cleanup_outcome>>

\* lines 141-143, connect() succeeds: return self.client.connect()
AttemptSucceeds_KeepsGoing ==
  /\ pc = "loop"
  /\ LoopContinues(i)
  /\ env' = [env EXCEPT ![self_].client =
               [exists |-> TRUE, port |-> env[self_].server_port,
                connected |-> TRUE]]
  /\ log' = Append(log, "ok")
  /\ i' = i + 1
  /\ UNCHANGED <<retval, call_outcome, pc>>
  /\ UNCHANGED <<live_carla_processes, RETRIES_ON_ERROR, proc, spawned_by,
                 self_, op, killpg_calls, cleanup_outcome>>

AttemptSucceeds ==
  /\ pc = "loop"
  /\ LoopContinues(i)
  /\ env' = [env EXCEPT ![self_].client =
               [exists |-> TRUE, port |-> env[self_].server_port,
                connected |-> TRUE]]
  /\ log' = Append(log, "ok")
  /\ \E r \in ConnectReturns : retval' = r
  /\ call_outcome' = "returned"
  /\ pc' = "idle"
  /\ UNCHANGED <<live_carla_processes, RETRIES_ON_ERROR, proc, spawned_by,
                 self_, i, op, killpg_calls, cleanup_outcome>>

\* lines 141-145, CarlaClient(...) itself raised at line 142: self.client
\* is not assigned and keeps its previous value
ConstructorFails ==
  /\ pc = "loop"
  /\ LoopContinues(i)
  /\ log' = Append(log, "fail")
  /\ pc' = "except"
  /\ UNCHANGED <<env, live_carla_processes, RETRIES_ON_ERROR, proc,
                 spawned_by, self_, i, retval, call_outcome, op,
                 killpg_calls, cleanup_outcome>>

\* lines 141-145, CarlaClient(...) was assigned, connect() raised at line 143
AttemptFails ==
  /\ pc = "loop"
  /\ LoopContinues(i)
  /\ env' = [env EXCEPT ![self_].client =
               [exists |-> TRUE, port |-> env[self_].server_port,
                connected |-> FALSE]]
  /\ log' = Append(log, "fail")
  /\ pc' = "except"
  /\ UNCHANGED <<live_carla_processes, RETRIES_ON_ERROR, proc, spawned_by,
                 self_, i, retval, call_outcome, op, killpg_calls, cleanup_outcome>>

\* line 146: time.sleep(2), then the next iteration
InitServerSleep_NotAfterLast ==
  /\ pc = "except"
  /\ log' = IF LoopContinues(i + 1) THEN Append(log, "sleep") ELSE log
  /\ i' = i + 1
  /\ pc' = "loop"
  /\ UNCHANGED <<env, live_carla_processes, RETRIES_ON_ERROR, proc,
                 spawned_by, self_, retval, call_outcome, op, killpg_calls,
                 cleanup_outcome>>

InitServerSleep ==
  /\ pc = "except"
  /\ log' = Append(log, "sleep")
  /\ i' = i + 1
  /\ pc' = "loop"
  /\ UNCHANGED <<env, live_carla_processes, RETRIES_ON_ERROR, proc,
                 spawned_by, self_, retval, call_outcome, op, killpg_calls,
                 cleanup_outcome>>

\* the loop is exhausted: the function body ends, Python returns None
InitServerExhausted ==
  /\ pc = "loop"
  /\ RETRIES_ON_ERROR # Unbound
  /\ ~LoopContinues(i)
  /\ retval' = "None"
  /\ call_outcome' = "returned"
  /\ pc' = "idle"
  /\ UNCHANGED <<env, live_carla_processes, RETRIES_ON_ERROR, proc,
                 spawned_by, self_, i, log, op, killpg_calls,
                 cleanup_outcome>>

\* ------------------------------------------------- the simulator process
\* the spawned server exits on its own (crash, quit)
ServerExit(p) ==
  /\ proc[p] = "running"
  /\ proc' = [proc EXCEPT ![p] = "zombie"]
  /\ UNCHANGED <<env, live_carla_processes, RETRIES_ON_ERROR, spawned_by, pc,
                 self_, i, log, retval, call_outcome, op, killpg_calls,
                 cleanup_outcome>>

\* an exited server whose Popen handle was dropped is reaped; its process
\* group no longer exists afterwards
Reap(p) ==
  /\ proc[p] = "zombie"
  /\ \A e \in Envs : env[e].server_process # p
  /\ proc' = [proc EXCEPT ![p] = "gone"]
  /\ UNCHANGED <<env, live_carla_processes, RETRIES_ON_ERROR, spawned_by, pc,
                 self_, i, log, retval, call_outcome, op, killpg_calls,
                 cleanup_outcome>>

\* ---------------------------------------------------------------- cleanup
\* index of the first pgid in the iteration order whose killpg raises
FirstMissing(order) ==
  IF \E j \in DOMAIN order : ~GroupExists(order[j])
    THEN CHOOSE j \in DOMAIN order :
           /\ ~GroupExists(order[j])
           /\ \A k \in DOMAIN order : k < j => GroupExists(order[k])
    ELSE Len(order) + 1

\* pgids os.killpg is called on when the set is iterated in this order
KillpgCalled(order) ==
  {order[j] : j \in {k \in DOMAIN order : k <= FirstMissing(order)}}

CleanupRaises(order) == FirstMissing(order) <= Len(order)

Cleanup ==
  /\ pc = "idle"
  /\ \E order \in Perms(live_carla_processes) :
       /\ killpg_calls' = KillpgCalled(order)
       /\ cleanup_outcome' =
            IF CleanupRaises(order) THEN "raised" ELSE "returned"
       /\ proc' = [p \in Pids |->
                     IF p \in KillpgCalled(order) /\ proc[p] = "running"
                       THEN "zombie" ELSE proc[p]]
  /\ op' = "cleanup"
  /\ log' = <<>>
  /\ retval' = "None"
  /\ call_outcome' = "none"
  /\ UNCHANGED <<env, live_carla_processes, RETRIES_ON_ERROR, spawned_by, pc,
                 self_, i>>

\* --------------------------------------------------------- specifications
Next ==
  \/ \E e \in Envs, cfg \in ProcessConfigs : Construct(e, cfg)
  \/ \E e \in Envs : InitServerCall(e)
  \/ InitServerRegister
  \/ AttemptSucceeds
  \/ AttemptFails
  \/ ConstructorFails
  \/ InitServerNameError
  \/ \E n \in 0..MaxRetries : BindRetries(n)
  \/ InitServerSleep
  \/ InitServerExhausted
  \/ \E p \in Pids : ServerExit(p)
  \/ \E p \in Pids : Reap(p)
  \/ Cleanup

Spec == Init /\ [][Next]_vars

\* the single thread keeps running the method it is in
FairSpec ==
  /\ Init
  /\ [][Next]_vars
  /\ WF_vars(InitServerRegister)
  /\ WF_vars(InitServerNameError)
  /\ WF_vars(AttemptSucceeds \/ AttemptFails \/ ConstructorFails)
  /\ WF_vars(InitServerSleep)
  /\ WF_vars(InitServerExhausted)

NextSpaces ==
  \/ \E e \in Envs, cfg \in Configs : Construct(e, cfg)
  \/ \E n \in 0..MaxRetries : BindRetries(n)

SpecSpaces == Init /\ [][NextSpaces]_vars

\* ------------------------------------------------------------ properties
\* init_server is over, by return or by exception
Finished == op = "init_server" /\ ~InCall

\* init_server has returned normally
Returned == Finished /\ call_outcome = "returned"

NoSuccess == Count(log, "ok") = 0

CurrentPgid == Getpgid(env[self_].server_process)

\* the log of a call whose k-th attempt is the first to succeed
ExpectedLog(k) ==
  [j \in 1..(2 * k - 1) |->
     IF j = 2 * k - 1 THEN "ok" ELSE IF j % 2 = 1 THEN "fail" ELSE "sleep"]

LiveSpawned(e) == {p \in spawned_by[e] : Alive(p)}

EverRegistered == {Getpgid(p) : p \in {q \in Pids : proc[q] # "none"}}

C1_Registered ==
  /\ \A e \in Envs : \A p \in spawned_by[e] :
       \/ Getpgid(p) \in live_carla_processes
       \/ pc = "register" /\ self_ = e /\ env[e].server_process = p
  /\ (op = "init_server" /\ (Attempts(log) > 0 \/ pc # "register")) =>
       CurrentPgid \in live_carla_processes

\* C1: the process-group id of the spawned simulator is in
\* live_carla_processes before the first connection attempt of init_server
\* and in every later state, whatever the attempts' outcome; no step ever
\* removes an id from the registry.
C1_RegisteredBeforeConnect ==
  /\ [](C1_Registered)
  /\ [][live_carla_processes \subseteq live_carla_processes']_vars

C1_Witness ==
  /\ Returned /\ NoSuccess /\ pc = "idle"
  /\ Attempts(log) = RETRIES_ON_ERROR /\ RETRIES_ON_ERROR > 0
  /\ CurrentPgid \in live_carla_processes
  /\ Cardinality(live_carla_processes) = 2

\* C2: after cleanup has run the registry is empty and every process-group
\* id registered before it ran has received a kill signal.
C2_RegistryEmptyAfterCleanup ==
  op = "cleanup" =>
    /\ live_carla_processes = {}
    /\ EverRegistered \subseteq killpg_calls

\* C3: cleanup does not raise when a registered group has already exited;
\* the failed kill is swallowed and every remaining group is still signaled,
\* on the first run and on a second one.
C3_CleanupNeverRaises ==
  op = "cleanup" =>
    /\ cleanup_outcome = "returned"
    /\ live_carla_processes \subseteq killpg_calls

\* C4: when every connection attempt failed, init_server does not complete
\* normally with a result a successful call can also produce: it raises, or
\* it returns a value no successful call returns.
C4_ExhaustionSurfaced ==
  (Finished /\ NoSuccess /\ RETRIES_ON_ERROR # Unbound) =>
    \/ call_outcome = "raised"
    \/ retval \notin ConnectReturns

C6_AtMostN ==
  /\ op = "init_server" =>
       Attempts(log) <= (IF RETRIES_ON_ERROR = Unbound THEN 0
                                                       ELSE RETRIES_ON_ERROR)
  /\ (Returned /\ NoSuccess) => Attempts(log) = RETRIES_ON_ERROR

\* C6: with a client whose every attempt fails, init_server makes exactly
\* RETRIES_ON_ERROR attempts, never one more, and the retry loop terminates.
C6_ExactlyNThenStops ==
  /\ [](C6_AtMostN)
  /\ [](InCall => <>(~InCall))

C6_Witness ==
  /\ Returned /\ NoSuccess
  /\ RETRIES_ON_ERROR = MaxRetries
  /\ Attempts(log) = MaxRetries

\* C7: an environment instance never has two live simulator processes that
\* it spawned: a server is spawned only when the instance has no live one.
C7_AtMostOneLiveServer ==
  \A e \in Envs : Cardinality(LiveSpawned(e)) <= 1

\* C8: __init__ leaves the instance uninitialized (no server process, no
\* port, no client, counters 0) and changes neither the registry nor any
\* process.
C8_ConstructSpawnsNothing ==
  [][(op' = "__init__" /\ (op # "__init__" \/ env' # env \/ self_' # self_)) =>
       /\ live_carla_processes' = live_carla_processes
       /\ proc' = proc
       /\ spawned_by'[self_'] = {}
       /\ env'[self_'].constructed
       /\ env'[self_'].server_process = None
       /\ env'[self_'].server_port = None
       /\ env'[self_'].client = NoClient
       /\ env'[self_'].num_steps = 0
       /\ env'[self_'].total_reward = 0]_vars

C8_Witness ==
  /\ op = "__init__"
  /\ live_carla_processes # {}
  /\ env[self_].constructed
  /\ env[self_].server_process = None
  /\ env[self_].server_port = None
  /\ ~env[self_].client.exists

ChannelsPerFrame(cfg) == IF cfg.use_depth_camera THEN 1 ELSE 3

\* C9: the image component of observation_space has shape
\* (y_res, x_res, C), C = 3 * framestack without the depth camera and
\* 1 * framestack with it.
C9_ImageShape ==
  \A e \in Envs :
    env[e].constructed =>
      /\ env[e].image_shape[1] = env[e].config.y_res
      /\ env[e].image_shape[2] = env[e].config.x_res
      /\ env[e].image_shape[3] =
           ChannelsPerFrame(env[e].config) * env[e].config.framestack
      /\ Len(env[e].image_shape) = 3

C9_Witness ==
  \E e \in Envs :
    /\ env[e].constructed /\ ~env[e].config.use_depth_camera
    /\ env[e].config.x_res = 800 /\ env[e].config.y_res = 80
    /\ env[e].config.framestack = 2
    /\ env[e].image_shape = <<80, 800, 6>>

\* C10: in the retry loop a sleep follows every failed attempt, the last
\* one included, and never a successful one: the number of sleeps equals the
\* number of failed attempts, so N failed attempts make N sleeps.
C10_SleepAfterEveryFailure ==
  op = "init_server" =>
    /\ \A j \in DOMAIN log :
         /\ log[j] = "sleep" => (j > 1 /\ log[j - 1] = "fail")
         /\ (log[j] = "fail" /\ j < Len(log)) => log[j + 1] = "sleep"
    /\ pc # "except" => Count(log, "sleep") = Count(log, "fail")
    /\ (Returned /\ NoSuccess) => Count(log, "sleep") = RETRIES_ON_ERROR

C10_Witness ==
  /\ Returned /\ NoSuccess
  /\ RETRIES_ON_ERROR = 2
  /\ log = <<"fail", "sleep", "fail", "sleep">>

====
